---- MODULE Spec2Model ----
(***************************************************************************)
(* Frontmatter Automation (src/main.ts): the tag normalizer, the inline    *)
(* tag extractor, the three-way tag merge, the frontmatter reconciler, the *)
(* split and compose of a note's text, and a run of                        *)
(* updateFrontmatterForFile on a note.                                     *)
(*                                                                         *)
(* A JavaScript string is a sequence of characters; a character is a       *)
(* one-character TLA+ string, or the name of its code point ("U+AC00")     *)
(* where the character is not ASCII.                                       *)
(***************************************************************************)
EXTENDS Integers, Sequences, FiniteSets, TLC

VARIABLES
    pc,            \* the step the modelled function call is at
    file,          \* the note's text in the vault
    rawRead,       \* updateFrontmatterForFile: `raw`, the text the run has read
    body,          \* extractInlineTagsAndStrip: its argument `text`
    inlineTags,    \* inline tags (the extractor's result, addKeepCase's first argument)
    strippedBody,  \* extractInlineTagsAndStrip: the body it returns
    frontmatter,   \* the old frontmatter: an ordered mapping, or Null
    obj,           \* the generation result returned by callAIForJSON
    finalTags,     \* Array.from(chosen.values())
    merged,        \* the reconciled frontmatter (the mapping handed to composeWithFrontmatter)
    stat,          \* file.stat: Null, or [ctime, mtime], each a timestamp or Null
    now,           \* Date.now()
    tz,            \* the local time zone's offset from UTC, in hours
    settings,      \* this.settings, as far as the run reads it: tagLangs, a list of [code, max]
    edits,         \* how often another actor has written the note
    rawTag,        \* addKeepCase / addAi: the tag `String(t ?? '')` of one source entry
    tagForm,       \* addKeepCase / addAi: `raw`, the canonical form of that tag
    dedupKey       \* addKeepCase / addAi: `k`, the key the tag is recorded under

vars == <<pc, file, rawRead, body, inlineTags, strippedBody, frontmatter, obj, finalTags, merged, stat, now, tz,
          settings, edits, rawTag, tagForm, dedupKey>>

\* the variables no step of a run assigns
envVars == <<settings, edits>>

\* the variables of one tag's normalization
tagVars == <<rawTag, tagForm, dedupKey>>

-----------------------------------------------------------------------------
(* Characters *)

UpperSeq == <<"A","B","C","D","E","F","G","H","I","J","K","L","M",
              "N","O","P","Q","R","S","T","U","V","W","X","Y","Z">>
LowerSeq == <<"a","b","c","d","e","f","g","h","i","j","k","l","m",
              "n","o","p","q","r","s","t","u","v","w","x","y","z">>
DigitSeq == <<"0","1","2","3","4","5","6","7","8","9">>

SeqRange(s) == {s[i] : i \in 1..Len(s)}

UpperChars == SeqRange(UpperSeq)
LowerChars == SeqRange(LowerSeq)
DigitChars == SeqRange(DigitSeq)
LetterChars == UpperChars \cup LowerChars

\* [\uAC00-\uD7AF]: the Hangul syllables the model's inputs use
HangulChars == {"U+AC00", "U+B098", "U+C138", "U+ACC4", "U+C5ED", "U+C0AC"}

\* JavaScript's \s (and what String.prototype.trim strips), as far as the inputs go
SpaceChars == {" ", "\t", "\n", "U+FEFF"}

\* [\u200B-\u200D\uFEFF]
ZeroWidthChars == {"U+200B", "U+200C", "U+200D", "U+FEFF"}

\* the separators of [ _/\-]
SepChars == {" ", "_", "/", "-"}

\* [A-Za-z0-9 _/\-]
EnglishChars == LetterChars \cup DigitChars \cup SepChars

\* [A-Za-z0-9_\-\/\uAC00-\uD7AF]
TagBodyChars == LetterChars \cup DigitChars \cup {"_", "-", "/"} \cup HangulChars

\* [\s,.;:!?)}\]]
TagEndChars == SpaceChars \cup {",", ".", ";", ":", "!", "?", ")", "}", "]"}

\* \s and [([{:], the characters a tag's marker may follow
TagLeadChars == SpaceChars \cup {"(", "[", "{", ":"}

IndexIn(c, s) == CHOOSE i \in 1..Len(s) : s[i] = c

\* String.prototype.toLowerCase / toUpperCase on one character
LowerChar(c) ==
    IF c \in UpperChars THEN LowerSeq[IndexIn(c, UpperSeq)]
    ELSE IF c = "U+00C9" THEN "U+00E9"
    ELSE c

UpperChar(c) ==
    IF c \in LowerChars THEN UpperSeq[IndexIn(c, LowerSeq)]
    ELSE IF c = "U+00E9" THEN "U+00C9"
    ELSE c

-----------------------------------------------------------------------------
(* Strings *)

toLowerCase(s) == [i \in 1..Len(s) |-> LowerChar(s[i])]

Slice(s, from, to) == [i \in 1..(IF to >= from THEN to - from + 1 ELSE 0) |-> s[from + i - 1]]

\* the characters of s that are not in cs, in order: s.replace(/[cs]+/g, '')
RECURSIVE RemoveChars(_, _)
RemoveChars(s, cs) ==
    IF s = <<>> THEN <<>>
    ELSE IF Head(s) \in cs THEN RemoveChars(Tail(s), cs)
    ELSE <<Head(s)>> \o RemoveChars(Tail(s), cs)

\* s.replace(/[cs]+/g, r): every maximal run of characters of cs becomes the one character r
RECURSIVE ReplaceRuns(_, _, _)
ReplaceRuns(s, cs, r) ==
    IF s = <<>> THEN <<>>
    ELSE IF Head(s) \in cs
         THEN IF Len(s) > 1 /\ s[2] \in cs
              THEN ReplaceRuns(Tail(s), cs, r)
              ELSE <<r>> \o ReplaceRuns(Tail(s), cs, r)
    ELSE <<Head(s)>> \o ReplaceRuns(Tail(s), cs, r)

\* s.replace(/^[cs]+/, '')
RECURSIVE DropLeading(_, _)
DropLeading(s, cs) ==
    IF s # <<>> /\ Head(s) \in cs THEN DropLeading(Tail(s), cs) ELSE s

\* s.replace(/[cs]+$/, '')
RECURSIVE DropTrailing(_, _)
DropTrailing(s, cs) ==
    IF s # <<>> /\ s[Len(s)] \in cs THEN DropTrailing(Slice(s, 1, Len(s) - 1), cs) ELSE s

\* String.prototype.trim
trim(s) == DropTrailing(DropLeading(s, SpaceChars), SpaceChars)

\* s.replace(/^#/, ''): one leading marker
StripMarker(s) == IF s # <<>> /\ Head(s) = "#" THEN Tail(s) ELSE s

-----------------------------------------------------------------------------
(* Values of the YAML frontmatter and of the JSON generation result *)

Str(s)  == [k |-> "str", s |-> s]
Num(n)  == [k |-> "num", n |-> n]
Bool(b) == [k |-> "bool", b |-> b]
Arr(a)  == [k |-> "arr", a |-> a]
Null    == [k |-> "null"]

\* DEFAULT_SETTINGS: tagLangs: [{ code: 'en', max: 10 }]
DEFAULT_SETTINGS == [tagLangs |-> <<[code |-> "en", max |-> 10]>>]

\* the decimal digits of a natural number
RECURSIVE Digits(_)
Digits(n) == IF n < 10 THEN <<DigitSeq[n + 1]>> ELSE Digits(n \div 10) \o <<DigitSeq[(n % 10) + 1]>>

\* String(t ?? '') of a scalar
StringOf(v) ==
    CASE v.k = "str"  -> v.s
      [] v.k = "num"  -> Digits(v.n)
      [] v.k = "bool" -> IF v.b THEN <<"t","r","u","e">> ELSE <<"f","a","l","s","e">>
      [] v.k = "null" -> <<>>

\* Boolean(v) of a scalar or an array
Truthy(v) ==
    CASE v.k = "str"  -> v.s # <<>>
      [] v.k = "num"  -> v.n # 0
      [] v.k = "bool" -> v.b
      [] v.k = "null" -> FALSE
      [] v.k = "arr"  -> TRUE

asArray(v) ==
    IF v.k = "arr" THEN v.a
    ELSE IF v.k = "null" THEN <<>>
    ELSE <<v>>

-----------------------------------------------------------------------------
(* Tag normalizer *)

\* a test for Hangul that a Latin letter defeats
hasHangulNoLatin(s) ==
    /\ \E i \in 1..Len(s) : s[i] \in HangulChars
    /\ \A i \in 1..Len(s) : s[i] \notin LetterChars

hasHangul(s) == \E i \in 1..Len(s) : s[i] \in HangulChars

\* /^[A-Za-z0-9 _/\-]+$/.test(base) && /[A-Za-z]/.test(base)
isEnglishBase(s) ==
    /\ s # <<>>
    /\ \A i \in 1..Len(s) : s[i] \in EnglishChars
    /\ \E i \in 1..Len(s) : s[i] \in LetterChars

\* .replace(/[ _/]+/g, '-').replace(/-{2,}/g, '-').replace(/^-+|-+$/g, '')
hyphenStyle(base) ==
    DropTrailing(DropLeading(ReplaceRuns(ReplaceRuns(base, {" ", "_", "/"}, "-"), {"-"}, "-"),
                             {"-"}), {"-"})

\* every script gets the hyphen style: no concatenation for Hangul and Latin
cleanupBareHyphenates(s) == hyphenStyle(StripMarker(trim(s)))

cleanupBare(s) ==
    LET base == StripMarker(trim(s))
    IN  IF hasHangul(base) \/ isEnglishBase(base)
        THEN RemoveChars(base, SepChars)
        ELSE hyphenStyle(base)

tagKey(s) == toLowerCase(cleanupBare(s))

\* base.split(/[ _/\-]+/).filter(Boolean)
RECURSIVE splitTokens(_, _)
splitTokens(s, cur) ==
    IF s = <<>> THEN (IF cur = <<>> THEN <<>> ELSE <<cur>>)
    ELSE IF Head(s) \in SepChars
         THEN (IF cur = <<>> THEN <<>> ELSE <<cur>>) \o splitTokens(Tail(s), <<>>)
    ELSE splitTokens(Tail(s), cur \o <<Head(s)>>)

\* /[A-Z].*[a-z]|[a-z].*[A-Z]/.test(tok)
hasMixedCase(tok) ==
    \E i, j \in 1..Len(tok) :
        /\ i < j
        /\ \/ tok[i] \in UpperChars /\ tok[j] \in LowerChars
           \/ tok[i] \in LowerChars /\ tok[j] \in UpperChars

\* a token left in the case it came in
pascalTokenKeepsCase(tok) == tok

pascalToken(tok) ==
    IF \A i \in 1..Len(tok) : tok[i] \in UpperChars \cup DigitChars THEN tok
    ELSE IF tok[1] \in DigitChars THEN tok
    ELSE IF hasMixedCase(tok) THEN <<UpperChar(tok[1])>> \o Tail(tok)
    ELSE <<UpperChar(tok[1])>> \o toLowerCase(Tail(tok))

RECURSIVE JoinAll(_)
JoinAll(ss) == IF ss = <<>> THEN <<>> ELSE Head(ss) \o JoinAll(Tail(ss))

toPascalCaseEnglish(base) ==
    LET split == splitTokens(base, <<>>)
        tokens == IF Len(split) > 0 THEN split ELSE <<base>>
    IN  JoinAll([i \in 1..Len(tokens) |-> pascalToken(tokens[i])])

formatAiTag(s) ==
    LET base == StripMarker(trim(s))
    IN  IF hasHangul(base) THEN RemoveChars(base, SepChars)
        ELSE IF isEnglishBase(base) THEN toPascalCaseEnglish(base)
        ELSE hyphenStyle(base)

\* a conservative rule that takes the slash for part of the tag
formatExistingTagKeepsSlash(s) ==
    LET base == StripMarker(trim(s))
    IN  IF hasHangul(base) \/ isEnglishBase(base)
        THEN RemoveChars(base, SepChars \ {"/"})
        ELSE hyphenStyle(base)

formatExistingTag(s) == cleanupBare(s)

-----------------------------------------------------------------------------
(* Ordered mappings: a JavaScript object is the sequence of its own        *)
(* [key, val] entries in insertion order                                   *)

Map(m) == [k |-> "map", m |-> m]

hasKey(v, key) == v.k = "map" /\ \E i \in 1..Len(v.m) : v.m[i].key = key

\* v.key, v?.key: Null stands for undefined as well
Get(v, key) ==
    IF hasKey(v, key)
    THEN v.m[CHOOSE i \in 1..Len(v.m) : v.m[i].key = key].val
    ELSE Null

\* out[key] = val: an existing key keeps its place, a new one is appended
Put(m, key, val) ==
    IF \E i \in 1..Len(m) : m[i].key = key
    THEN [i \in 1..Len(m) |-> IF m[i].key = key THEN [key |-> key, val |-> val] ELSE m[i]]
    ELSE Append(m, [key |-> key, val |-> val])

\* delete out[key]
RECURSIVE Delete(_, _)
Delete(m, key) ==
    IF m = <<>> THEN <<>>
    ELSE IF Head(m).key = key THEN Delete(Tail(m), key)
    ELSE <<Head(m)>> \o Delete(Tail(m), key)

Keys(m) == [i \in 1..Len(m) |-> m[i].key]

-----------------------------------------------------------------------------
(* Tag merge: updateFrontmatterForFile, lines 92-118 *)

\* arr.flat(): one level
RECURSIVE flat(_)
flat(vals) ==
    IF vals = <<>> THEN <<>>
    ELSE (IF Head(vals).k = "arr" THEN Head(vals).a ELSE <<Head(vals)>>) \o flat(Tail(vals))

\* arr.filter(Boolean)
RECURSIVE filterBoolean(_)
filterBoolean(vals) ==
    IF vals = <<>> THEN <<>>
    ELSE (IF Truthy(Head(vals)) THEN <<Head(vals)>> ELSE <<>>) \o filterBoolean(Tail(vals))

\* Object.values(obj.tags_by_lang ?? {})
tagsByLangValues(o) ==
    LET tbl == Get(o, "tags_by_lang")
    IN  IF tbl.k = "map" THEN [i \in 1..Len(tbl.m) |-> tbl.m[i].val] ELSE <<>>

\* Object.values(tagsByLang).flat().filter(Boolean)
aiFlatTags(o) == filterBoolean(flat(tagsByLangValues(o)))

\* chosen.has(k)
chosenHas(chosen, k) == \E i \in 1..Len(chosen) : chosen[i].key = k

\* a chosen.set(k, raw) that is not guarded by chosen.has(k): the last form wins
chosenAddOverwrites(chosen, k, raw) ==
    IF k = <<>> THEN chosen ELSE Put(chosen, k, raw)

\* if (k && !chosen.has(k)) chosen.set(k, raw)
chosenAdd(chosen, k, raw) ==
    IF k # <<>> /\ ~chosenHas(chosen, k)
    THEN Append(chosen, [key |-> k, val |-> raw])
    ELSE chosen

RECURSIVE addKeepCase(_, _)
addKeepCase(chosen, arr) ==
    IF arr = <<>> THEN chosen
    ELSE LET raw == formatExistingTag(StringOf(Head(arr)))
         IN  addKeepCase(chosenAdd(chosen, tagKey(raw), raw), Tail(arr))

RECURSIVE addAi(_, _)
addAi(chosen, arr) ==
    IF arr = <<>> THEN chosen
    ELSE LET raw == formatAiTag(StringOf(Head(arr)))
         IN  addAi(chosenAdd(chosen, tagKey(raw), raw), Tail(arr))

StrAll(ss) == [i \in 1..Len(ss) |-> Str(ss[i])]

\* the generated tags merged before the existing frontmatter tags
chosenTagsAiBeforeExisting(inl, fm, o) ==
    LET chosen == addKeepCase(addAi(addKeepCase(<<>>, StrAll(inl)), aiFlatTags(o)),
                              asArray(Get(fm, "tags")))
    IN  [i \in 1..Len(chosen) |-> chosen[i].val]

\* addKeepCase(inlineTags); addKeepCase(asArray(frontmatter?.tags)); addAi(aiFlatTags);
\* Array.from(chosen.values())
chosenTags(inl, fm, o) ==
    LET chosen == addAi(addKeepCase(addKeepCase(<<>>, StrAll(inl)),
                                    asArray(Get(fm, "tags"))),
                        aiFlatTags(o))
    IN  [i \in 1..Len(chosen) |-> chosen[i].val]

-----------------------------------------------------------------------------
(* Inline tag extractor: extractInlineTagsAndStrip, cleanupAfterTagRemoval *)

\* the length of the longest prefix of s made of characters of cs
RECURSIVE RunLen(_, _)
RunLen(s, cs) == IF s # <<>> /\ Head(s) \in cs THEN 1 + RunLen(Tail(s), cs) ELSE 0

\* the last position of the greedy [A-Za-z0-9_\-\/\uAC00-\uD7AF]+ that starts after the marker at i
tagEnd(text, i) == i + RunLen(Slice(text, i + 1, Len(text)), TagBodyChars)

\* a TAG_REGEX whose body may be empty and need not hold a letter: #(?!#)([...]*)(?=$|[\s,.;:!?)}\]])
tagAtEmptyBody(text, i) ==
    /\ text[i] = "#"
    /\ i = 1 \/ text[i - 1] \in TagLeadChars
    /\ i = Len(text) \/ text[i + 1] # "#"
    /\ tagEnd(text, i) = Len(text) \/ text[tagEnd(text, i) + 1] \in TagEndChars

\* TAG_REGEX matches at i: (^|(?<=\s)|(?<=[([{:])) # (?!#|\s) (body with a letter) (?=$|[\s,.;:!?)}\]])
tagAt(text, i) ==
    /\ text[i] = "#"
    /\ i = 1 \/ text[i - 1] \in TagLeadChars
    /\ i < Len(text) /\ text[i + 1] \notin {"#"} \cup SpaceChars
    /\ tagEnd(text, i) > i
    /\ \E j \in (i + 1)..tagEnd(text, i) : text[j] \in LetterChars \cup HangulChars
    /\ tagEnd(text, i) = Len(text) \/ text[tagEnd(text, i) + 1] \in TagEndChars

\* where the matches of text.replace(TAG_REGEX, ...) start
tagStarts(text) == {i \in 1..Len(text) : tagAt(text, i)}

\* the positions of text the matches cover
tagPositions(text) == {p \in 1..Len(text) : \E i \in tagStarts(text) : i <= p /\ p <= tagEnd(text, i)}

\* the characters of s at the positions of keep, in order
RECURSIVE KeepAt(_, _, _)
KeepAt(s, keep, p) ==
    IF p > Len(s) THEN <<>>
    ELSE (IF p \in keep THEN <<s[p]>> ELSE <<>>) \o KeepAt(s, keep, p + 1)

\* text.replace(TAG_REGEX, ... => prefix ?? ''): the prefix group is always empty
replaceTags(text) == KeepAt(text, (1..Len(text)) \ tagPositions(text), 1)

\* found: formatExistingTag of every match, in the order of the matches, the empty ones left out
RECURSIVE foundFrom(_, _)
foundFrom(text, i) ==
    IF i > Len(text) THEN <<>>
    ELSE IF tagAt(text, i)
         THEN LET norm == formatExistingTag(Slice(text, i + 1, tagEnd(text, i)))
              IN  (IF norm # <<>> THEN <<norm>> ELSE <<>>) \o foundFrom(text, tagEnd(text, i) + 1)
    ELSE foundFrom(text, i + 1)

\* Array.from(new Set(arr)): equal strings once, in the order of their first occurrence
RECURSIVE uniqArray(_)
uniqArray(arr) ==
    IF arr = <<>> THEN <<>>
    ELSE LET init == uniqArray(Slice(arr, 1, Len(arr) - 1))
             last == arr[Len(arr)]
         IN  IF \E i \in 1..Len(init) : init[i] = last THEN init ELSE Append(init, last)

\* s.replace(/[ \t]+$/gm, ''): a space or tab goes when only spaces and tabs follow it on its line
stripLineEnds(s) ==
    LET lineRest(p) == RunLen(Slice(s, p, Len(s)), {" ", "\t"})
        goes(p) == /\ s[p] \in {" ", "\t"}
                   /\ p + lineRest(p) > Len(s) \/ s[p + lineRest(p)] = "\n"
    IN  KeepAt(s, {p \in 1..Len(s) : ~goes(p)}, 1)

\* s.replace(/\n{3,}/g, '\n\n')
RECURSIVE collapseBlankLines(_)
collapseBlankLines(s) ==
    IF s = <<>> THEN <<>>
    ELSE LET n == RunLen(s, {"\n"})
         IN  IF n = 0 THEN <<Head(s)>> \o collapseBlankLines(Tail(s))
             ELSE (IF n >= 3 THEN <<"\n", "\n">> ELSE Slice(s, 1, n))
                  \o collapseBlankLines(Slice(s, n + 1, Len(s)))

\* a cleanup that trims the start of the text as well as its end
cleanupAfterTagRemovalTrimsBothEnds(s) ==
    trim(collapseBlankLines(stripLineEnds(RemoveChars(s, ZeroWidthChars))))

cleanupAfterTagRemoval(s) ==
    DropTrailing(collapseBlankLines(stripLineEnds(RemoveChars(s, ZeroWidthChars))), SpaceChars)

\* const unique = Array.from(new Set(found.map(t => t)))
extractedTags(text) == uniqArray(foundFrom(text, 1))

extractedBody(text) == cleanupAfterTagRemoval(replaceTags(text))

-----------------------------------------------------------------------------
(* Dates. A timestamp counts the hours since 2025-08-01T00:00Z; the local  *)
(* clock is UTC + zone hours.                                              *)

pad2(n) == IF n < 10 THEN <<"0">> \o Digits(n) ELSE Digits(n)

\* the calendar date d days after 2025-08-01 (d days before it, when negative), as YYYY-MM-DD
dateString(d) ==
    IF d >= 0 THEN <<"2","0","2","5","-","0","8","-">> \o pad2(d + 1)
    ELSE <<"2","0","2","5","-","0","7","-">> \o pad2(32 + d)

\* getFullYear / getMonth / getDate of the local time, padded and joined
formatYYYYMMDDLocal(ts, zone) == dateString((ts + zone) \div 24)

\* new Date(s).getTime() of a date-only ISO string: midnight UTC of that day; NaN is Null
dateParse(s) ==
    IF \E d \in -31..30 : dateString(d) = s
    THEN Num(24 * (CHOOSE d \in -31..30 : dateString(d) = s))
    ELSE Null

-----------------------------------------------------------------------------
(* Frontmatter reconciliation: mergeFrontmatter and updateFrontmatterForFile, lines 120-148 *)

\* a ?? b
orElse(a, b) == IF a.k = "null" THEN b ELSE a

\* .map(t => t.replace(/\s+/g, '-'))
spacesToHyphen(s) == ReplaceRuns(s, SpaceChars, "-")

\* the old tags as mergeFrontmatter tidies them (lines 340-347)
tidyTags(v) ==
    LET arr == asArray(v)
        trimmed == [i \in 1..Len(arr) |-> trim(StringOf(arr[i]))]
        kept == KeepAt(trimmed, {i \in 1..Len(trimmed) : trimmed[i] # <<>>}, 1)
    IN  Arr(StrAll(uniqArray([i \in 1..Len(kept) |-> spacesToHyphen(StripMarker(kept[i]))])))

\* for (const [k, v] of Object.entries(genFM)) out[k] = v   (genFM holds no tags)
RECURSIVE putAll(_, _)
putAll(out, gen) ==
    IF gen = <<>> THEN out
    ELSE putAll(Put(out, Head(gen).key, Head(gen).val), Tail(gen))

mergeFrontmatter(oldFM, genFM) ==
    LET start == IF oldFM.k = "map" THEN oldFM.m ELSE <<>>
        out == putAll(start, genFM)
    IN  IF Truthy(Get(Map(out), "tags")) THEN Put(out, "tags", tidyTags(Get(Map(out), "tags")))
        ELSE out

\* const generated = { title: obj.title ?? '', summary: obj.summary ?? '' }
generatedOf(o) ==
    << [key |-> "title",   val |-> orElse(Get(o, "title"), Str(<<>>))],
       [key |-> "summary", val |-> orElse(Get(o, "summary"), Str(<<>>))] >>

\* the deletions without the one of path
stripForbiddenKeepsPath(m) == Delete(Delete(m, "updated"), "last_modified")

\* delete merged.updated; delete merged.last_modified; delete merged.path
stripForbidden(m) == Delete(Delete(Delete(m, "updated"), "last_modified"), "path")

\* a base that takes the modification time before the creation time
baseTsPrefersMtime(st, t) ==
    IF st.k = "null" THEN t
    ELSE IF st.mtime.k # "null" THEN st.mtime.n
    ELSE IF st.ctime.k # "null" THEN st.ctime.n
    ELSE t

\* stat?.ctime ?? stat?.mtime ?? Date.now()
baseTs(st, t) ==
    IF st.k = "null" THEN t
    ELSE IF st.ctime.k # "null" THEN st.ctime.n
    ELSE IF st.mtime.k # "null" THEN st.mtime.n
    ELSE t

\* a created that is filled from the file's times whenever it is no date
withCreatedFillsUnparsable(m, st, t, zone) ==
    LET created == Get(Map(m), "created")
    IN  IF created.k = "str" /\ dateParse(created.s).k # "null"
        THEN Put(m, "created", Str(formatYYYYMMDDLocal(dateParse(created.s).n, zone)))
        ELSE Put(m, "created", Str(formatYYYYMMDDLocal(baseTs(st, t), zone)))

\* lines 138-145
withCreated(m, st, t, zone) ==
    LET created == Get(Map(m), "created")
    IN  IF ~hasKey(Map(m), "created") \/ ~Truthy(created)
        THEN Put(m, "created", Str(formatYYYYMMDDLocal(baseTs(st, t), zone)))
        ELSE IF created.k = "str" /\ dateParse(created.s).k # "null"
        THEN Put(m, "created", Str(formatYYYYMMDDLocal(dateParse(created.s).n, zone)))
        ELSE m

\* a reconciliation that rebuilds the mapping from the fields it knows
reconcileDropsUnknownFields(fm, o, tags, st, t, zone) ==
    LET known == {"title", "summary", "tags", "created", "fm_created"}
        old == IF fm.k = "map" THEN fm.m ELSE <<>>
        m0 == mergeFrontmatter(Map(KeepAt(old, {i \in 1..Len(old) : old[i].key \in known}, 1)),
                               generatedOf(o))
        m1 == Put(m0, "tags", Arr(StrAll(tags)))
        m3 == withCreated(stripForbidden(m1), st, t, zone)
    IN  Map(Put(m3, "fm_created", Str(formatYYYYMMDDLocal(t, zone))))

\* the frontmatter written back: lines 120-148
reconcile(fm, o, tags, st, t, zone) ==
    LET m0 == mergeFrontmatter(fm, generatedOf(o))
        m1 == Put(m0, "tags", Arr(StrAll(tags)))
        m2 == stripForbidden(m1)
        m3 == withCreated(m2, st, t, zone)
    IN  Map(Put(m3, "fm_created", Str(formatYYYYMMDDLocal(t, zone))))

-----------------------------------------------------------------------------
(* The YAML text of a frontmatter: YAML.dump and YAML.load (js-yaml) on the  *)
(* block mappings the plugin reads and writes: one "key: scalar" line per    *)
(* scalar field, "key:" and one "  - item" line per item for a list.         *)

\* the text of the keys the model's mappings use
KeyText ==
    [ title         |-> <<"t","i","t","l","e">>,
      summary       |-> <<"s","u","m","m","a","r","y">>,
      tags          |-> <<"t","a","g","s">>,
      created       |-> <<"c","r","e","a","t","e","d">>,
      fm_created    |-> <<"f","m","_","c","r","e","a","t","e","d">>,
      updated       |-> <<"u","p","d","a","t","e","d">>,
      last_modified |-> <<"l","a","s","t","_","m","o","d","i","f","i","e","d">>,
      path          |-> <<"p","a","t","h">>,
      author        |-> <<"a","u","t","h","o","r">>,
      aliases       |-> <<"a","l","i","a","s","e","s">> ]

\* characters a plain (unquoted) scalar may not start with
YamlIndicators == {"-", "?", ":", ",", "[", "]", "{", "}", "#", "&", "*", "!", "|", "=",
                   ">", "'", "%", "@"}

\* characters a plain scalar may not hold anywhere
YamlFlowChars == {",", "[", "]", "{", "}", "\n", "'"}

hasPair(s, a, b) == \E i \in 1..(Len(s) - 1) : s[i] = a /\ s[i + 1] = b

\* a string the YAML core schema would read as a number, a date, a boolean or null
resolvesToOther(s) ==
    \/ (s # <<>> /\ \A i \in 1..Len(s) : s[i] \in DigitChars)
    \/ dateParse(s).k # "null"
    \/ s \in {<<"t","r","u","e">>, <<"f","a","l","s","e">>, <<"n","u","l","l">>, <<"~">>}

\* may s be written without quotes and be read back as the string s
plainSafe(s) ==
    /\ s # <<>>
    /\ s[1] \notin YamlIndicators \cup SpaceChars
    /\ s[Len(s)] \notin SpaceChars \cup {":"}
    /\ \A i \in 1..Len(s) : s[i] \notin YamlFlowChars
    /\ ~hasPair(s, ":", " ")
    /\ ~hasPair(s, " ", "#")
    /\ ~resolvesToOther(s)

\* a scalar as dump writes it: plain where that is safe, in single quotes otherwise
dumpScalar(v) ==
    IF v.k = "str" THEN (IF plainSafe(v.s) THEN v.s ELSE <<"'">> \o v.s \o <<"'">>)
    ELSE IF v.k = "null" THEN <<"n","u","l","l">>
    ELSE StringOf(v)

RECURSIVE dumpItems(_)
dumpItems(a) ==
    IF a = <<>> THEN <<>>
    ELSE <<" "," ","-"," ">> \o dumpScalar(Head(a)) \o <<"\n">> \o dumpItems(Tail(a))

dumpField(f) ==
    IF f.val.k = "arr"
    THEN IF f.val.a = <<>> THEN KeyText[f.key] \o <<":"," ","[","]","\n">>
         ELSE KeyText[f.key] \o <<":","\n">> \o dumpItems(f.val.a)
    ELSE KeyText[f.key] \o <<":"," ">> \o dumpScalar(f.val) \o <<"\n">>

RECURSIVE dumpFields(_)
dumpFields(m) == IF m = <<>> THEN <<>> ELSE dumpField(Head(m)) \o dumpFields(Tail(m))

\* YAML.dump(fm) of a mapping
yamlDump(fm) == IF fm.m = <<>> THEN <<"{","}","\n">> ELSE dumpFields(fm.m)

\* what YAML.load throws on, and a text outside the block mappings modelled here
YamlError  == [k |-> "error"]
Unmodelled == [k |-> "unmodelled"]

\* s.split(c)
splitOn(s, c, cur) ==
    LET brk == {i \in 1..Len(s) : s[i] = c}
        n == Cardinality(brk)
        nth(k) == CHOOSE i \in brk : Cardinality({j \in brk : j <= i}) = k
        from(k) == IF k = 1 THEN 1 ELSE nth(k - 1) + 1
        upto(k) == IF k = n + 1 THEN Len(s) ELSE nth(k) - 1
    IN  [k \in 1..(n + 1) |-> (IF k = 1 THEN cur ELSE <<>>) \o Slice(s, from(k), upto(k))]

\* the number a string of digits writes
RECURSIVE numberOf(_)
numberOf(s) ==
    IF s = <<>> THEN 0 ELSE 10 * numberOf(Slice(s, 1, Len(s) - 1)) + (IndexIn(s[Len(s)], DigitSeq) - 1)

\* the value of the text of one scalar
loadScalar(t) ==
    IF t = <<>> THEN Null
    ELSE IF Head(t) = "'"
    THEN IF Len(t) >= 2 /\ t[Len(t)] = "'" /\ \A i \in 2..(Len(t) - 1) : t[i] # "'"
         THEN Str(Slice(t, 2, Len(t) - 1))
         ELSE IF \A i \in 2..Len(t) : t[i] # "'" THEN YamlError ELSE Unmodelled
    ELSE IF t = <<"[","]">> THEN Arr(<<>>)
    ELSE IF \A i \in 1..Len(t) : t[i] \in DigitChars THEN Num(numberOf(t))
    ELSE IF t = <<"t","r","u","e">> THEN Bool(TRUE)
    ELSE IF t = <<"f","a","l","s","e">> THEN Bool(FALSE)
    ELSE IF t \in {<<"n","u","l","l">>, <<"~">>} THEN Null
    ELSE IF plainSafe(t) THEN Str(t)
    ELSE Unmodelled

keyOf(t) == CHOOSE key \in DOMAIN KeyText : KeyText[key] = t
isKeyText(t) == \E key \in DOMAIN KeyText : KeyText[key] = t

\* the position of the first ": " of a line, or of a ":" that ends it; 0 when there is none
colonAt(line) ==
    LET at == {i \in 1..Len(line) : line[i] = ":" /\ (i = Len(line) \/ line[i + 1] = " ")}
    IN  IF at = {} THEN 0 ELSE CHOOSE i \in at : \A j \in at : i <= j

\* the mapping read so far, with one more line read
loadLine(acc, line) ==
    IF acc.k # "map" THEN acc
    ELSE IF Len(line) >= 4 /\ Slice(line, 1, 4) = <<" "," ","-"," ">>
    THEN LET item == loadScalar(Slice(line, 5, Len(line)))
             n == Len(acc.m)
         IN  IF item.k \in {"error", "unmodelled"} THEN item
             ELSE IF n = 0 THEN YamlError
             ELSE IF acc.m[n].val.k = "null" /\ acc.open
             THEN [acc EXCEPT !.m[n].val = Arr(<<item>>)]
             ELSE IF acc.m[n].val.k = "arr" /\ acc.open
             THEN [acc EXCEPT !.m[n].val = Arr(Append(acc.m[n].val.a, item))]
             ELSE YamlError
    ELSE LET c == colonAt(line)
         IN  IF c = 0 \/ ~isKeyText(Slice(line, 1, c - 1)) THEN Unmodelled
             ELSE LET key == keyOf(Slice(line, 1, c - 1))
                      val == loadScalar(Slice(line, c + 2, Len(line)))
                  IN  IF val.k \in {"error", "unmodelled"} THEN val
                      ELSE IF \E i \in 1..Len(acc.m) : acc.m[i].key = key THEN YamlError
                      ELSE [k |-> "map", m |-> Append(acc.m, [key |-> key, val |-> val]),
                            open |-> (c = Len(line))]

RECURSIVE loadLines(_, _)
loadLines(acc, lines) ==
    IF lines = <<>> THEN acc ELSE loadLines(loadLine(acc, Head(lines)), Tail(lines))

\* YAML.load(y): a mapping, Null for the empty document, YamlError where it throws
yamlLoad(y) ==
    IF y = <<>> THEN Null
    ELSE IF y = <<"{","}">> THEN [k |-> "map", m |-> <<>>]
    ELSE LET r == loadLines([k |-> "map", m |-> <<>>, open |-> FALSE], splitOn(y, "\n", <<>>))
         IN  IF r.k = "map" THEN [k |-> "map", m |-> r.m] ELSE r

\* a load whose failure is handed on to the caller
safeLoadYamlRethrows(y) == yamlLoad(y)

\* try { return YAML.load(y); } catch { return null; }
safeLoadYaml(y) == LET r == yamlLoad(y) IN IF r.k = "error" THEN Null ELSE r

-----------------------------------------------------------------------------
(* splitFrontmatter and composeWithFrontmatter. Positions count from 1.     *)

Fence == <<"-","-","-">>

startsWith(s, p) == Len(s) >= Len(p) /\ Slice(s, 1, Len(p)) = p

\* s.indexOf(p, from): the first position at or after from where p stands, 0 when there is none
indexOf(s, p, from) ==
    LET at == {i \in from..(Len(s) - Len(p) + 1) : Slice(s, i, i + Len(p) - 1) = p}
    IN  IF at = {} THEN 0 ELSE CHOOSE i \in at : \A j \in at : i <= j

\* s.replace(/^\s*\n/, ''): the greedy \s* runs over line breaks too, so the match ends at
\* the last line break of the leading whitespace
dropLeadingBlank(s) ==
    LET n == RunLen(s, SpaceChars)
        nl == {i \in 1..n : s[i] = "\n"}
    IN  IF nl = {} THEN s
        ELSE Slice(s, (CHOOSE i \in nl : \A j \in nl : j <= i) + 1, Len(s))

splitFrontmatter(raw) ==
    LET end == IF startsWith(raw, Fence) THEN indexOf(raw, <<"\n">> \o Fence, 4) ELSE 0
    IN  IF end # 0
        THEN [frontmatter |-> safeLoadYaml(trim(Slice(raw, 4, end))),
              body |-> dropLeadingBlank(Slice(raw, end + 4, Len(raw)))]
        ELSE [frontmatter |-> Null, body |-> raw]

composeWithFrontmatter(fm, b) ==
    Fence \o <<"\n">> \o DropTrailing(yamlDump(fm), SpaceChars) \o <<"\n">> \o Fence
          \o <<"\n","\n">> \o b

-----------------------------------------------------------------------------
(* Bounds and inputs *)

\* the number of tags the three sources hold together
MaxTags == 3

BoundedSeq(S, n) == UNION {[1..m -> S] : m \in 0..n}

\* no element twice
Injective(s) == \A i, j \in 1..Len(s) : i # j => s[i] # s[j]

\* tags as the extractor returns them: cleaned, not empty, no string twice
InlinePool == { <<"A","b">>, <<"a","b">>, <<"c">> }

\* raw tags of the frontmatter and of the generation result: Latin in two spellings of one
\* key, another script, Hangul, a doubled marker, the empty string
TagPool == { Str(<<"A","b">>), Str(<<"a","-","b">>), Str(<<"U+00E9"," ","b">>),
             Str(<<"U+AC00"," ","c">>), Str(<<"#","#">>), Str(<<>>) }

\* raw tags of a list of the generation result: JSON gives any value, so numbers and a
\* boolean too
GenTagPool == TagPool \cup {Num(0), Num(5), Bool(FALSE)}

Field(key, val) == [key |-> key, val |-> val]

\* frontmatter whose tags are the list ex: a list, a bare scalar for one tag, no frontmatter for none
frontmattersWithTags(ex) ==
    {Map(<<Field("tags", Arr(ex))>>)}
        \cup (IF Len(ex) = 1 THEN {Map(<<Field("tags", ex[1])>>)} ELSE {})
        \cup (IF Len(ex) = 0 THEN {Null} ELSE {})

\* generation results whose tags_by_lang holds en and ko, in that order
resultsWithTags(en, ko) ==
    {Map(<<Field("tags_by_lang", Map(<<Field("en", Arr(en)), Field("ko", Arr(ko))>>))>>)}
        \cup (IF Len(en) + Len(ko) = 0 THEN {Map(<<>>)} ELSE {})

History      == <<"H","i","s","t","o","r","y">>
historyNotes == <<"h","i","s","t","o","r","y","-","n","o","t","e","s">>
historynotes == <<"h","i","s","t","o","r","y","n","o","t","e","s">>

\* merge(inline=["History"], existing=["history-notes"], generated={"en":["History"]})
Scenario2 ==
    /\ inlineTags = <<History>>
    /\ frontmatter = Map(<<Field("tags", Arr(<<Str(historyNotes)>>))>>)
    /\ obj = Map(<<Field("tags_by_lang", Map(<<Field("en", Arr(<<Str(History)>>))>>))>>)

-----------------------------------------------------------------------------
(* The tag merge applied to every input within the bounds *)

InitMerge ==
    /\ rawRead = <<>>
    /\ settings = [tagLangs |-> <<[code |-> "en", max |-> 1], [code |-> "ko", max |-> 1]>>]
    /\ edits = 0
    /\ rawTag = <<>> /\ tagForm = <<>> /\ dedupKey = <<>>
    /\ pc = "start"
    /\ file = <<>>
    /\ body = <<>> /\ strippedBody = <<>> /\ finalTags = <<>> /\ merged = Null
    /\ stat = Null /\ now = 0 /\ tz = 0
    /\ \/ \E inl \in BoundedSeq(InlinePool, MaxTags) :
            /\ Injective(inl)
            /\ inlineTags = inl
            /\ \E ex \in BoundedSeq(TagPool, MaxTags - Len(inl)) :
                 /\ frontmatter \in frontmattersWithTags(ex)
                 /\ \E en \in BoundedSeq(GenTagPool, MaxTags - Len(inl) - Len(ex)) :
                      \E ko \in BoundedSeq(TagPool, MaxTags - Len(inl) - Len(ex) - Len(en)) :
                          obj \in resultsWithTags(en, ko)
       \/ Scenario2

\* updateFrontmatterForFile, lines 92-118
MergeTags ==
    /\ pc = "start"
    /\ finalTags' = chosenTags(inlineTags, frontmatter, obj)
    /\ pc' = "merged"
    /\ UNCHANGED <<file, body, inlineTags, strippedBody, frontmatter, obj, merged, stat, now, tz, tagVars, rawRead, envVars>>

NextMerge == MergeTags

SpecMerge == InitMerge /\ [][NextMerge]_vars

-----------------------------------------------------------------------------
(* Claims about the tag merge (SpecMerge) *)

\* a source tag as addKeepCase / addAi see it: its canonical form and the key it is recorded under
keepEntry(v) == LET raw == formatExistingTag(StringOf(v)) IN [key |-> tagKey(raw), val |-> raw]
aiEntry(v)   == LET raw == formatAiTag(StringOf(v)) IN [key |-> tagKey(raw), val |-> raw]

inlineEntries    == [i \in 1..Len(inlineTags) |-> keepEntry(Str(inlineTags[i]))]
existingEntries  == LET a == asArray(Get(frontmatter, "tags")) IN [i \in 1..Len(a) |-> keepEntry(a[i])]
generatedEntries == LET a == aiFlatTags(obj) IN [i \in 1..Len(a) |-> aiEntry(a[i])]
suppliedGenerated == LET a == flat(tagsByLangValues(obj)) IN [i \in 1..Len(a) |-> aiEntry(a[i])]

hasKeyIn(es, k) == \E i \in 1..Len(es) : es[i].key = k
firstIndexOf(es, k) == CHOOSE i \in 1..Len(es) : es[i].key = k /\ \A j \in 1..(i - 1) : es[j].key # k
firstFormOf(es, k) == es[firstIndexOf(es, k)].val

\* C1: every entry of the merged list is the canonical form of the first inline tag with the
\* entry's dedup key if an inline tag has that key, otherwise of the first existing
\* frontmatter tag with that key, and of a generated tag only when neither has it.
C1_MergePrecedence ==
    pc = "merged" =>
        \A e \in 1..Len(finalTags) :
            LET k == tagKey(finalTags[e])
            IN  IF hasKeyIn(inlineEntries, k) THEN finalTags[e] = firstFormOf(inlineEntries, k)
                ELSE IF hasKeyIn(existingEntries, k) THEN finalTags[e] = firstFormOf(existingEntries, k)
                ELSE hasKeyIn(generatedEntries, k) /\ finalTags[e] = firstFormOf(generatedEntries, k)

\* an inline, an existing and a generated tag share one key in three different forms, and the
\* merged list holds the inline one
C1_Witness ==
    /\ pc = "merged"
    /\ \E i \in 1..Len(inlineEntries), x \in 1..Len(existingEntries), g \in 1..Len(generatedEntries) :
        /\ inlineEntries[i].key = existingEntries[x].key
        /\ inlineEntries[i].key = generatedEntries[g].key
        /\ inlineEntries[i].val # existingEntries[x].val
        /\ existingEntries[x].val # generatedEntries[g].val
        /\ inlineEntries[i].val # generatedEntries[g].val
        /\ finalTags = <<inlineEntries[i].val>>

\* C2: the merged list holds no dedup key twice; every entry is the form of the first
\* occurrence of its key in the processing order inline, existing, generated; and the
\* entries stand in the order of those first occurrences.
C2_MergeDedupOrder ==
    pc = "merged" =>
        LET P == inlineEntries \o existingEntries \o generatedEntries
            keyAt(i) == tagKey(finalTags[i])
        IN  /\ \A i, j \in 1..Len(finalTags) : i < j => keyAt(i) # keyAt(j)
            /\ \A i \in 1..Len(finalTags) :
                 /\ hasKeyIn(P, keyAt(i))
                 /\ finalTags[i] = firstFormOf(P, keyAt(i))
            /\ \A i, j \in 1..Len(finalTags) :
                 i < j => firstIndexOf(P, keyAt(i)) < firstIndexOf(P, keyAt(j))

\* two keys are merged, and one of them was seen again later in another form
C2_Witness ==
    /\ pc = "merged"
    /\ Len(finalTags) = 2
    /\ LET P == inlineEntries \o existingEntries \o generatedEntries
       IN  \E p, q \in 1..Len(P) : p < q /\ P[p].key = P[q].key /\ P[p].val # P[q].val

\* C3: every tag a source supplies whose canonical form is not empty has an entry with its
\* dedup key in the final list.
C3_NoTagLost ==
    pc = "merged" =>
        \A en \in SeqRange(inlineEntries \o existingEntries \o suppliedGenerated) :
            en.val # <<>> => \E e \in 1..Len(finalTags) : tagKey(finalTags[e]) = en.key

C12_NonStringsCoerced ==
    pc = "merged" =>
        LET supplied == flat(tagsByLangValues(obj))
        IN  \A i \in 1..Len(supplied) :
                (supplied[i].k # "str" /\ aiEntry(supplied[i]).val # <<>>)
                    => \E e \in 1..Len(finalTags) : tagKey(finalTags[e]) = aiEntry(supplied[i]).key

\* the entries of the final list that came from the generation result's list for a language:
\* neither an inline nor an existing tag has their key, and a tag of that list has their form
fromGeneratedList(code) ==
    LET list == filterBoolean(asArray(Get(Get(obj, "tags_by_lang"), code)))
    IN  {e \in 1..Len(finalTags) :
            /\ ~hasKeyIn(inlineEntries \o existingEntries, tagKey(finalTags[e]))
            /\ \E i \in 1..Len(list) : aiEntry(list[i]).val = finalTags[e]}

\* C21: for every configured language with maximum n, the final tag list holds at most n
\* tags that came from the generation result's list for that language.
C21_TagQuota ==
    pc = "merged" =>
        \A q \in SeqRange(settings.tagLangs) : Cardinality(fromGeneratedList(q.code)) <= q.max

-----------------------------------------------------------------------------
(* The tag merge of a run, and of the next run on the note the first one wrote *)

\* raw tags: Latin in two spellings of one key, another script, two words, a doubled marker
RemergePool == { Str(<<"A","b">>), Str(<<"a","-","b">>), Str(<<"U+00E9"," ","b">>),
                 Str(<<"c"," ","d">>), Str(<<"#","#","a">>) }

InitRemerge ==
    /\ pc = "start"
    /\ file = <<>> /\ rawRead = <<>>
    /\ body = <<>> /\ strippedBody = <<>> /\ finalTags = <<>> /\ merged = Null
    /\ stat = Null /\ now = 0 /\ tz = 0
    /\ settings = DEFAULT_SETTINGS /\ edits = 0
    /\ rawTag = <<>> /\ tagForm = <<>> /\ dedupKey = <<>>
    /\ \E inl \in BoundedSeq(InlinePool, MaxTags) :
         /\ Injective(inl)
         /\ inlineTags = inl
         /\ \E ex \in BoundedSeq(RemergePool, MaxTags - Len(inl)) :
              /\ frontmatter \in frontmattersWithTags(ex)
              /\ \E en \in BoundedSeq(RemergePool, MaxTags - Len(inl) - Len(ex)) :
                   obj \in resultsWithTags(en, <<>>)

\* lines 92-118 in the next run: the note holds the tags the first run wrote and no inline
\* tag any more, the generation result is the same
MergeAgain ==
    /\ pc = "merged"
    /\ inlineTags' = <<>>
    /\ frontmatter' = Map(<<Field("tags", Arr(StrAll(finalTags)))>>)
    /\ finalTags' = chosenTags(<<>>, Map(<<Field("tags", Arr(StrAll(finalTags)))>>), obj)
    /\ pc' = "remerged"
    /\ UNCHANGED <<file, body, strippedBody, obj, merged, stat, now, tz, tagVars, rawRead, envVars>>

NextRemerge == MergeTags \/ MergeAgain

SpecRemerge == InitRemerge /\ [][NextRemerge]_vars

\* C26: merging again, with no inline tags, the merged tags as the existing tags and the
\* same generated tags, returns the merged tags: the same strings in the same order.
C26_RemergeStable ==
    pc = "remerged" => Arr(StrAll(finalTags)) = Get(frontmatter, "tags")

-----------------------------------------------------------------------------
(* The inline tag extractor applied to every body within the bounds *)

\* the length of a body
MaxBodyLen == 5

\* a marker, letters in both cases, a separator of tag bodies, blank, line break,
\* punctuation, a zero-width space
BodyAlphabet == {"#", "a", "A", "-", " ", "\n", ".", "U+200B"}

\* "#history #world analysis"
Scenario1Body == <<"#","h","i","s","t","o","r","y"," ","#","w","o","r","l","d"," ",
                   "a","n","a","l","y","s","i","s">>

InitExtract ==
    /\ rawRead = <<>>
    /\ settings = DEFAULT_SETTINGS
    /\ edits = 0
    /\ rawTag = <<>> /\ tagForm = <<>> /\ dedupKey = <<>>
    /\ pc = "start"
    /\ file = <<>>
    /\ body \in BoundedSeq(BodyAlphabet, MaxBodyLen) \cup {Scenario1Body}
    /\ inlineTags = <<>> /\ strippedBody = <<>> /\ finalTags = <<>>
    /\ frontmatter = Null /\ obj = Null /\ merged = Null
    /\ stat = Null /\ now = 0 /\ tz = 0

\* const { inlineTags, strippedBody } = extractInlineTagsAndStrip(body)
Extract ==
    /\ pc = "start"
    /\ inlineTags' = extractedTags(body)
    /\ strippedBody' = extractedBody(body)
    /\ pc' = "extracted"
    /\ UNCHANGED <<file, body, frontmatter, obj, finalTags, merged, stat, now, tz, tagVars, rawRead, envVars>>

\* the extractor applied to the body it returned, as the next run on the written note does
ExtractAgain ==
    /\ pc = "extracted"
    /\ body' = strippedBody
    /\ inlineTags' = extractedTags(strippedBody)
    /\ strippedBody' = extractedBody(strippedBody)
    /\ pc' = "again"
    /\ UNCHANGED <<file, frontmatter, obj, finalTags, merged, stat, now, tz, tagVars, rawRead, envVars>>

NextExtract == Extract \/ ExtractAgain

SpecExtract == InitExtract /\ [][NextExtract]_vars

-----------------------------------------------------------------------------
(* Claims about the extractor (SpecExtract) *)

CountOf(c, s) == Cardinality({i \in 1..Len(s) : s[i] = c})

\* the markers of the body that whitespace follows
headingMarkers == {i \in 1..(Len(body) - 1) : body[i] = "#" /\ body[i + 1] \in SpaceChars}

\* C5 as the spec states it: the stripped body is exactly "analysis".
C5_Scenario1AsStated ==
    (pc = "extracted" /\ body = Scenario1Body) =>
        /\ inlineTags = << <<"h","i","s","t","o","r","y">>, <<"w","o","r","l","d">> >>
        /\ strippedBody = <<"a","n","a","l","y","s","i","s">>

\* C5, amended: extract("#history #world analysis") returns ["history", "world"] and the
\* body "  analysis": the blanks that followed the two markers stay at its start.
C5_Scenario1 ==
    (pc = "extracted" /\ body = Scenario1Body) =>
        /\ inlineTags = << <<"h","i","s","t","o","r","y">>, <<"w","o","r","l","d">> >>
        /\ strippedBody = <<" "," ","a","n","a","l","y","s","i","s">>

C5_Witness == pc = "extracted" /\ body = Scenario1Body /\ Len(inlineTags) = 2

\* C6: a marker that whitespace follows is no match of the tag pattern, it is still in the
\* stripped body, and the tags returned are no more than the other markers.
C6_HeadingNeverExtracted ==
    pc = "extracted" =>
        /\ \A i \in headingMarkers : ~tagAt(body, i)
        /\ CountOf("#", strippedBody) >= Cardinality(headingMarkers)
        /\ Len(inlineTags) <= CountOf("#", body) - Cardinality(headingMarkers)

\* a heading ("# a", "## a") beside a real tag: the tag is returned, the heading markers stay
C6_Witness ==
    /\ pc = "extracted"
    /\ Cardinality(headingMarkers) >= 1
    /\ Len(inlineTags) = 1
    /\ CountOf("#", strippedBody) = CountOf("#", body) - 1

\* C7: no two inline tags the extractor returns have the same dedup key.
C7_InlineTagsDedupByKey ==
    pc = "extracted" =>
        \A i, j \in 1..Len(inlineTags) : i < j => tagKey(inlineTags[i]) # tagKey(inlineTags[j])

\* the collapse as C24 states it: a run of line breaks that makes three or more blank lines
\* becomes one blank line, a shorter run stays; at the start of the text n line breaks
\* are n blank lines, after a line they are n - 1
RECURSIVE claimedCollapse(_, _)
claimedCollapse(s, atStart) ==
    IF s = <<>> THEN <<>>
    ELSE LET n == RunLen(s, {"\n"})
             blank == IF atStart THEN n ELSE n - 1
         IN  IF n = 0 THEN <<Head(s)>> \o claimedCollapse(Tail(s), FALSE)
             ELSE (IF blank >= 3 THEN (IF atStart THEN <<"\n">> ELSE <<"\n", "\n">>)
                   ELSE Slice(s, 1, n))
                  \o claimedCollapse(Slice(s, n + 1, Len(s)), FALSE)

\* a body in which the extractor finds nothing to remove but blank lines: no marker, no
\* blank, no tab
plainLines(s) == \A i \in 1..Len(s) : s[i] \notin {"#", " ", "\t"} \cup ZeroWidthChars

\* C24: in the stripped body every run of three or more blank lines has become one blank
\* line, and runs of one or two blank lines are as they were (the end of the body, which
\* the cleanup trims, aside).
C24_BlankLineCollapse ==
    (pc = "extracted" /\ plainLines(body)) =>
        strippedBody = DropTrailing(claimedCollapse(body, TRUE), SpaceChars)

\* C25: the extractor applied to a stripped body it returned finds no inline tag and
\* returns that body unchanged.
C25_ExtractIdempotent ==
    pc = "again" => (inlineTags = <<>> /\ strippedBody = body)

-----------------------------------------------------------------------------
(* The reconciliation applied to every old frontmatter and generation result within the bounds *)

\* the number of fields of the old frontmatter
MaxFields == 3

NamedKeys == {"title", "summary", "tags", "created", "fm_created"}
ForbiddenKeys == {"updated", "last_modified", "path"}

\* the fields an old frontmatter may hold: those the reconciliation names, the forbidden
\* ones, and two it does not know; created is empty, no date, or a date
FieldPool ==
    { Field("title", Str(<<"O","l","d">>)),
      Field("summary", Str(<<"o","l","d">>)),
      Field("tags", Arr(<<Str(<<"#","x"," ","y">>)>>)),
      Field("created", Str(<<>>)),
      Field("created", Str(<<"n","/","a">>)),
      Field("created", Str(dateString(0))),
      Field("fm_created", Str(dateString(1))),
      Field("updated", Str(dateString(2))),
      Field("last_modified", Str(dateString(3))),
      Field("path", Str(<<"n",".","m","d">>)),
      Field("author", Str(<<"m","e">>)),
      Field("aliases", Arr(<<Str(<<"z">>)>>)) }

OldFrontmatters ==
    {Null} \cup {Map(m) : m \in {f \in BoundedSeq(FieldPool, MaxFields) : Injective(Keys(f))}}

\* generation results with and without title and summary
GenResults ==
    { Map(<<Field("title", Str(<<"T">>)), Field("summary", Str(<<"S">>))>>),
      Map(<<Field("title", Str(<<"T">>))>>),
      Map(<<Field("summary", Str(<<"S">>))>>),
      Map(<<Field("tags_by_lang", Map(<<>>))>>) }

FileStat(ctime, mtime) == [k |-> "stat", ctime |-> ctime, mtime |-> mtime]

InitReconcile ==
    /\ rawRead = <<>>
    /\ settings = DEFAULT_SETTINGS
    /\ edits = 0
    /\ rawTag = <<>> /\ tagForm = <<>> /\ dedupKey = <<>>
    /\ pc = "start"
    /\ file = <<>>
    /\ frontmatter \in OldFrontmatters
    /\ obj \in GenResults
    /\ finalTags \in {<<>>, << <<"A">> >>}
    /\ body = <<>> /\ inlineTags = <<>> /\ strippedBody = <<>> /\ merged = Null
    /\ stat = FileStat(Num(0), Num(24))
    /\ now = 420
    /\ tz = 0

\* updateFrontmatterForFile, lines 120-148
Reconcile ==
    /\ pc = "start"
    /\ merged' = reconcile(frontmatter, obj, finalTags, stat, now, tz)
    /\ pc' = "reconciled"
    /\ UNCHANGED <<file, body, inlineTags, strippedBody, frontmatter, obj, finalTags, stat, now, tz, tagVars, rawRead, envVars>>

NextReconcile == Reconcile

SpecReconcile == InitReconcile /\ [][NextReconcile]_vars

-----------------------------------------------------------------------------
(* Claims about the reconciliation (SpecReconcile) *)

oldFields == IF frontmatter.k = "map" THEN frontmatter.m ELSE <<>>

\* C8: the reconciled frontmatter holds none of the keys updated, last_modified, path.
C8_ForbiddenStripped ==
    pc = "reconciled" => \A i \in 1..Len(merged.m) : merged.m[i].key \notin ForbiddenKeys

\* the old frontmatter held all three
C8_Witness ==
    /\ pc = "reconciled"
    /\ ForbiddenKeys \subseteq SeqRange(Keys(oldFields))

\* C9: the fields of the old frontmatter other than title, summary, tags, created,
\* fm_created, updated, last_modified and path are in the reconciled frontmatter with the
\* values they had, in the order they had.
C9_PassThrough ==
    pc = "reconciled" =>
        LET other(m) == {i \in 1..Len(m) : m[i].key \notin NamedKeys \cup ForbiddenKeys}
            kept == KeepAt(oldFields, other(oldFields), 1)
        IN  KeepAt(merged.m, {i \in 1..Len(merged.m) : merged.m[i].key \in SeqRange(Keys(kept))}, 1)
                = kept

\* two fields the reconciliation does not know, around one it rewrites
C9_Witness ==
    /\ pc = "reconciled"
    /\ Keys(oldFields) = <<"aliases", "title", "author">>
    /\ hasKey(obj, "title")

\* C10: when the generation result holds no title (no summary), the reconciled frontmatter
\* keeps the old frontmatter's title (summary).
C10_AbsentScalarKeepsOld ==
    pc = "reconciled" =>
        \A key \in {"title", "summary"} :
            (hasKey(frontmatter, key) /\ ~hasKey(obj, key))
                => Get(merged, key) = Get(frontmatter, key)

-----------------------------------------------------------------------------
(* A run of updateFrontmatterForFile on one note *)

\* bodies: plain text, an inline tag, nothing, a leading blank line
DocBodies == { <<"x">>, <<"#","a"," ","x">>, <<>>, <<"\n","x">> }

\* the frontmatter a note may carry
DocFrontmatters ==
    { Map(<<>>),
      Map(<<Field("title", Str(<<"O","l","d">>)), Field("tags", Arr(<<Str(<<"b">>)>>))>>),
      Map(<<Field("created", Str(dateString(0))), Field("path", Str(<<"n",".","m","d">>))>>) }

\* "title: 'x": a quoted scalar that never ends, on which YAML.load throws
BrokenYaml == KeyText["title"] \o <<":"," ","'","x">>

\* the notes: without frontmatter, with a frontmatter in the form compose writes, and with
\* one that does not parse
Documents ==
    DocBodies
        \cup {composeWithFrontmatter(m, b) : m \in DocFrontmatters, b \in DocBodies}
        \cup {Fence \o <<"\n">> \o BrokenYaml \o <<"\n">> \o Fence \o <<"\n">> \o b : b \in DocBodies}

\* what callAIForJSON may return: null (no key, an HTTP error, no text, no JSON), JSON that
\* is no object, an array, objects without the expected fields, and results
Generations ==
    { Null, Num(0), Num(5), Str(<<"x">>), Arr(<<>>),
      Map(<<>>),
      Map(<<Field("note", Str(<<"x">>))>>),
      Map(<<Field("title", Str(<<"T">>)), Field("summary", Str(<<"S">>)),
            Field("tags_by_lang", Map(<<Field("en", Arr(<<Str(<<"c"," ","d">>)>>))>>))>>),
      Map(<<Field("title", Str(<<"T">>))>>),
      Map(<<Field("tags_by_lang", Map(<<Field("en", Arr(<<Str(<<"a">>)>>))>>))>>) }

Init ==
    /\ rawRead = <<>>
    /\ settings = DEFAULT_SETTINGS
    /\ edits = 0
    /\ rawTag = <<>> /\ tagForm = <<>> /\ dedupKey = <<>>
    /\ pc = "idle"
    /\ file \in Documents
    /\ body = <<>> /\ inlineTags = <<>> /\ strippedBody = <<>> /\ finalTags = <<>>
    /\ frontmatter = Null /\ obj = Null /\ merged = Null
    /\ stat = FileStat(Num(0), Num(24))
    /\ now = 420
    /\ tz = 0

\* lines 72-83: the text is read, split, and its inline tags extracted; the request is sent
ReadAndAsk ==
    /\ pc = "idle"
    /\ rawRead' = file
    /\ LET parts == splitFrontmatter(file)
       IN  /\ frontmatter' = parts.frontmatter
           /\ body' = parts.body
           /\ inlineTags' = extractedTags(parts.body)
           /\ strippedBody' = extractedBody(parts.body)
    /\ pc' = "calling"
    /\ UNCHANGED <<file, obj, finalTags, merged, stat, now, tz, tagVars, envVars>>

\* !obj || typeof obj !== 'object'
rejected(o) ==
    \/ o.k = "null"
    \/ o.k = "num" /\ o.n = 0
    \/ o.k = "str" /\ o.s = <<>>
    \/ o.k = "bool" /\ ~o.b
    \/ o.k \notin {"map", "arr", "null"}

\* lines 86-90: callAIForJSON returns what the run rejects; the run ends with a notice
GenerationRejected ==
    /\ pc = "calling"
    /\ \E o \in Generations :
         /\ rejected(o)
         /\ obj' = o
    /\ pc' = "failed"
    /\ UNCHANGED <<file, body, inlineTags, strippedBody, frontmatter, finalTags, merged, stat, now, tz, tagVars, rawRead, envVars>>

\* lines 86-153: callAIForJSON returns an object; tags are merged, the frontmatter is
\* reconciled, and the note is written
GenerationApplied ==
    /\ pc = "calling"
    /\ \E o \in Generations :
         /\ ~rejected(o)
         /\ obj' = o
         /\ LET tags == chosenTags(inlineTags, frontmatter, o)
                m == reconcile(frontmatter, o, tags, stat, now, tz)
            IN  /\ finalTags' = tags
                /\ merged' = m
                /\ file' = composeWithFrontmatter(m, strippedBody)
    /\ pc' = "written"
    /\ UNCHANGED <<body, inlineTags, strippedBody, frontmatter, stat, now, tz, tagVars, rawRead, envVars>>

\* how often another actor writes the note
MaxEdits == 1

\* the text a whole run writes for a note with the text `text`, when the generation
\* result is o: lines 72-152 without a suspension
runOutput(text, o, st, t, zone) ==
    LET parts == splitFrontmatter(text)
        tags == chosenTags(extractedTags(parts.body), parts.frontmatter, o)
    IN  composeWithFrontmatter(reconcile(parts.frontmatter, o, tags, st, t, zone),
                               extractedBody(parts.body))

\* the user types a line at the end of the note (the editor saves it to the vault)
UserEdit ==
    /\ edits < MaxEdits
    /\ edits' = edits + 1
    /\ file' = file \o <<"\n", "e">>
    /\ UNCHANGED <<pc, rawRead, body, inlineTags, strippedBody, frontmatter, obj, finalTags, merged,
                   stat, now, tz, settings, tagVars>>

\* a second run of the command on the same note reads it, gets its result and writes,
\* all while this run waits (or before it starts, or after it has ended)
SecondRun ==
    /\ edits < MaxEdits
    /\ edits' = edits + 1
    /\ \E o \in Generations :
         /\ ~rejected(o)
         /\ file' = runOutput(file, o, stat, now, tz)
    /\ UNCHANGED <<pc, rawRead, body, inlineTags, strippedBody, frontmatter, obj, finalTags, merged,
                   stat, now, tz, settings, tagVars>>

Next == ReadAndAsk \/ GenerationRejected \/ GenerationApplied \/ UserEdit \/ SecondRun

Spec == Init /\ [][Next]_vars

-----------------------------------------------------------------------------
(* Claims about a run (Spec) *)

ExpectedFields == {"title", "summary", "tags_by_lang"}

\* a generation result that is no mapping, or a mapping with none of the expected fields
malformed(o) == o.k # "map" \/ \A key \in ExpectedFields : ~hasKey(o, key)

\* C11: a run whose generation result is not a mapping, or is a mapping with none of the
\* fields title, summary, tags_by_lang, does not write the note: the step that receives
\* the result leaves the note's text as it was.
C11_MalformedNeverWrites ==
    [][(pc = "calling" /\ pc' # "calling" /\ malformed(obj')) => file' = file]_vars

\* a text with a metadata block: an opening fence and a closing one
hasBlock(text) == startsWith(text, Fence) /\ indexOf(text, <<"\n">> \o Fence, 4) # 0

\* the text between the fences, and the text after the closing fence
blockText(text) == trim(Slice(text, 4, indexOf(text, <<"\n">> \o Fence, 4)))
afterFence(text) == Slice(text, indexOf(text, <<"\n">> \o Fence, 4) + 4, Len(text))

\* a metadata block that does not parse
hasBrokenBlock(text) == hasBlock(text) /\ yamlLoad(blockText(text)) = YamlError

\* C22: when the text between the fences does not parse, split returns no metadata, the
\* run ends only if the generation result is rejected, and a run that goes on writes the
\* frontmatter the reconciler builds from an empty mapping.
C22_BrokenBlockRecovered ==
    (pc \in {"calling", "failed", "written"} /\ hasBrokenBlock(rawRead)) =>
        /\ frontmatter = Null
        /\ pc = "failed" => rejected(obj)
        /\ pc = "written" =>
              /\ merged = reconcile(Map(<<>>), obj, finalTags, stat, now, tz)
              /\ Keys(merged.m) = <<"title", "summary", "tags", "created", "fm_created">>

\* a note with a broken block has been processed and written
C22_Witness ==
    /\ pc = "written"
    /\ hasBrokenBlock(rawRead)
    /\ hasKey(obj, "title")
    /\ Get(merged, "title") = Get(obj, "title")

\* C27: the text a run writes is derived from the text the note holds when the run
\* writes: a change made by another actor after the run has read the note is not discarded.
C27_NoLostUpdate ==
    [][(pc = "calling" /\ pc' = "written") => file' = runOutput(file, obj', stat, now, tz)]_vars

-----------------------------------------------------------------------------
(* composeWithFrontmatter followed by splitFrontmatter, on every mapping and body within *)
(* the bounds                                                                            *)

\* the number of fields of the mapping composed
MaxTripFields == 1

\* the length of the body composed
MaxTripBody == 3

\* text, blank, line break, and the character of the fence
TripAlphabet == {"x", " ", "\n", "-"}

InitTrip ==
    /\ rawRead = <<>>
    /\ settings = DEFAULT_SETTINGS
    /\ edits = 0
    /\ rawTag = <<>> /\ tagForm = <<>> /\ dedupKey = <<>>
    /\ pc = "start"
    /\ merged \in {Map(m) : m \in {f \in BoundedSeq(FieldPool, MaxTripFields) : Injective(Keys(f))}}
    /\ strippedBody \in BoundedSeq(TripAlphabet, MaxTripBody)
    /\ file = <<>> /\ body = <<>> /\ inlineTags = <<>> /\ finalTags = <<>>
    /\ frontmatter = Null /\ obj = Null
    /\ stat = Null /\ now = 0 /\ tz = 0

\* const newRaw = this.composeWithFrontmatter(merged, strippedBody)
Compose ==
    /\ pc = "start"
    /\ file' = composeWithFrontmatter(merged, strippedBody)
    /\ pc' = "composed"
    /\ UNCHANGED <<body, inlineTags, strippedBody, frontmatter, obj, finalTags, merged, stat, now, tz, tagVars, rawRead, envVars>>

\* const { frontmatter, body } = this.splitFrontmatter(raw)
Split ==
    /\ pc = "composed"
    /\ frontmatter' = splitFrontmatter(file).frontmatter
    /\ body' = splitFrontmatter(file).body
    /\ pc' = "split"
    /\ UNCHANGED <<file, inlineTags, strippedBody, obj, finalTags, merged, stat, now, tz, tagVars, rawRead, envVars>>

NextTrip == Compose \/ Split

SpecTrip == InitTrip /\ [][NextTrip]_vars

-----------------------------------------------------------------------------
(* Claims about split and compose (SpecTrip) *)

\* C13: splitting the text composed of a mapping m and a body b returns a mapping equal to
\* m, key by key and value by value, and a body equal to b.
C13_SplitComposeRoundTrip ==
    pc = "split" => (frontmatter = merged /\ body = strippedBody)

\* s without its first line, when that line is blank (holds blanks and tabs only)
dropOneBlankLine(s) ==
    LET n == RunLen(s, {" ", "\t"})
    IN  IF n < Len(s) /\ s[n + 1] = "\n" THEN Slice(s, n + 2, Len(s)) ELSE s

\* C23: the body split returns is the text after the closing fence (after the line break
\* that ends the fence line, if there is one), as it is or without one leading blank line;
\* further leading blank lines are kept.
C23_SplitBodyKeepsBlankLines ==
    (pc = "split" /\ hasBlock(file)) =>
        LET rest == afterFence(file)
            text == IF rest # <<>> /\ Head(rest) = "\n" THEN Tail(rest) ELSE rest
        IN  body \in {rest, text, dropOneBlankLine(text)}

-----------------------------------------------------------------------------
(* The reconciliation applied to every created field, file time, clock and time zone   *)
(* within the bounds                                                                   *)

\* the created strings name the days 0..MaxDay after 2025-08-01
MaxDay == 2

notADate == <<"n","o","t","-","a","-","d","a","t","e">>

\* the created field of the old frontmatter: empty, null, no date, a date
CreatedPool ==
    {Str(<<>>), Null, Str(notADate), Str(<<"n","/","a">>)} \cup {Str(dateString(d)) : d \in 0..MaxDay}

\* no frontmatter, an empty one, one with created alone and one with created after another field
DatedFrontmatters ==
    {Null, Map(<<>>)}
        \cup {Map(<<Field("created", c)>>) : c \in CreatedPool}
        \cup {Map(<<Field("author", Str(<<"m","e">>)), Field("created", c)>>) : c \in CreatedPool}

\* file.stat: both times, the modification time alone, neither, no stat; the creation
\* time is the first or the last hour of 2025-08-01 UTC
FileStats ==
    {Null, FileStat(Null, Null), FileStat(Null, Num(24))}
        \cup {FileStat(Num(c), Num(24)) : c \in {0, 23}}

\* local time behind UTC, UTC, local time ahead of UTC
Zones == {0 - 5, 0, 9}

InitDates ==
    /\ rawRead = <<>>
    /\ settings = DEFAULT_SETTINGS
    /\ edits = 0
    /\ rawTag = <<>> /\ tagForm = <<>> /\ dedupKey = <<>>
    /\ pc = "start"
    /\ file = <<>>
    /\ frontmatter \in DatedFrontmatters
    /\ obj \in GenResults
    /\ finalTags = << <<"A">> >>
    /\ body = <<>> /\ inlineTags = <<>> /\ strippedBody = <<>> /\ merged = Null
    /\ stat \in FileStats
    /\ now = 420
    /\ tz \in Zones

SpecDates == InitDates /\ [][NextReconcile]_vars

-----------------------------------------------------------------------------
(* Claims about created and fm_created (SpecDates) *)

\* the timestamp the claim names: the creation time if known, otherwise the modification
\* time, otherwise the current time
knownFileTime ==
    IF stat # Null /\ stat.ctime # Null THEN stat.ctime.n
    ELSE IF stat # Null /\ stat.mtime # Null THEN stat.mtime.n
    ELSE now

\* the calendar date of a timestamp on the local clock
localDate(ts) == dateString((ts + tz) \div 24)

\* reconcile(oldMetadata={}, generated={title:"T", summary:"S"}, mergedTags=["A"],
\* now=2025-08-18, fileCreated=2025-08-01)
Scenario3 ==
    /\ frontmatter = Map(<<>>)
    /\ obj = Map(<<Field("title", Str(<<"T">>)), Field("summary", Str(<<"S">>))>>)
    /\ finalTags = << <<"A">> >>
    /\ stat = FileStat(Num(0), Num(24))
    /\ now = 420
    /\ tz = 0

\* C14: when the old frontmatter is absent or empty (and the generation result holds a
\* title and a summary), the reconciled frontmatter has exactly the fields title and summary
\* as generated, tags = the merged tags, created = the local date of the file's creation
\* time if known, otherwise of its modification time, otherwise of the current time, and
\* fm_created = the local date of the current time.
C14_ReconcileFromEmpty ==
    (/\ pc = "reconciled"
     /\ frontmatter \in {Null, Map(<<>>)}
     /\ hasKey(obj, "title") /\ hasKey(obj, "summary"))
        => /\ Len(merged.m) = 5
           /\ SeqRange(merged.m) =
                { Field("title", Get(obj, "title")),
                  Field("summary", Get(obj, "summary")),
                  Field("tags", Arr(StrAll(finalTags))),
                  Field("created", Str(localDate(knownFileTime))),
                  Field("fm_created", Str(localDate(now))) }

\* scenario 3, with the dates it names
C14_Witness ==
    /\ pc = "reconciled"
    /\ Scenario3
    /\ Get(merged, "created") = Str(<<"2","0","2","5","-","0","8","-","0","1">>)
    /\ Get(merged, "fm_created") = Str(<<"2","0","2","5","-","0","8","-","1","8">>)

oldCreated == Get(frontmatter, "created")

\* C15: when the old frontmatter has a created string that is not empty and does not parse
\* as a date, the reconciled frontmatter's created is that same string.
C15_UnparsableCreatedKept ==
    (/\ pc = "reconciled"
     /\ oldCreated.k = "str" /\ oldCreated.s # <<>>
     /\ dateParse(oldCreated.s) = Null)
        => Get(merged, "created") = oldCreated

\* scenario 4: created is "not-a-date" before and after
C15_Witness ==
    /\ pc = "reconciled"
    /\ oldCreated = Str(notADate)
    /\ Get(merged, "created") = Str(notADate)

\* C16: when the old frontmatter has a created string that parses as a date, the reconciled
\* created names the same calendar day, whatever the local time zone: a YYYY-MM-DD string
\* stays as it is.
C16_CreatedKeepsDay ==
    (/\ pc = "reconciled"
     /\ oldCreated.k = "str"
     /\ dateParse(oldCreated.s) # Null)
        => Get(merged, "created") = oldCreated

-----------------------------------------------------------------------------
(* The normalization of one tag, as addKeepCase and addAi apply it, on every raw tag    *)
(* within the bounds                                                                    *)

\* the length of a raw tag
MaxTagLen == 4

\* Latin in both cases, a digit, the four separators, Hangul, another script, the marker
TagAlphabet == {"a", "B", "1", " ", "-", "_", "/", "U+AC00", "U+00E9", "#"}

\* "civil rights"
civilRights == <<"c","i","v","i","l"," ","r","i","g","h","t","s">>
CivilRights == <<"C","i","v","i","l","R","i","g","h","t","s">>

\* the Korean tag of scenario 5: two syllables, a space, two syllables
segyeYeoksa == <<"U+C138","U+ACC4"," ","U+C5ED","U+C0AC">>
segyeyeoksa == <<"U+C138","U+ACC4","U+C5ED","U+C0AC">>

InitNormalize ==
    /\ rawRead = <<>>
    /\ settings = DEFAULT_SETTINGS
    /\ edits = 0
    /\ pc = "start"
    /\ rawTag \in BoundedSeq(TagAlphabet, MaxTagLen) \cup {civilRights, segyeYeoksa}
    /\ tagForm = <<>> /\ dedupKey = <<>>
    /\ file = <<>> /\ body = <<>> /\ inlineTags = <<>> /\ strippedBody = <<>> /\ finalTags = <<>>
    /\ frontmatter = Null /\ obj = Null /\ merged = Null
    /\ stat = Null /\ now = 0 /\ tz = 0

\* addKeepCase, lines 101-102: an inline or an existing tag
FormatExisting ==
    /\ pc = "start"
    /\ tagForm' = formatExistingTag(rawTag)
    /\ dedupKey' = tagKey(formatExistingTag(rawTag))
    /\ pc' = "existing"
    /\ UNCHANGED <<file, body, inlineTags, strippedBody, frontmatter, obj, finalTags, merged,
                   stat, now, tz, rawTag, rawRead, envVars>>

\* addAi, lines 108-109: a generated tag
FormatAi ==
    /\ pc = "start"
    /\ tagForm' = formatAiTag(rawTag)
    /\ dedupKey' = tagKey(formatAiTag(rawTag))
    /\ pc' = "ai"
    /\ UNCHANGED <<file, body, inlineTags, strippedBody, frontmatter, obj, finalTags, merged,
                   stat, now, tz, rawTag, rawRead, envVars>>

NextNormalize == FormatExisting \/ FormatAi

SpecNormalize == InitNormalize /\ [][NextNormalize]_vars

-----------------------------------------------------------------------------
(* Claims about the normalizer (SpecNormalize) *)

\* the raw tag without surrounding whitespace and without one leading marker: what the
\* rules classify
tagBase == StripMarker(trim(rawTag))

\* the classification of spec section 4.2, first match first
isKorean == \E i \in 1..Len(tagBase) : tagBase[i] \in HangulChars
isLatin ==
    /\ ~isKorean
    /\ tagBase # <<>>
    /\ \A i \in 1..Len(tagBase) : tagBase[i] \in LetterChars \cup DigitChars \cup {" ", "_", "/", "-"}
    /\ \E i \in 1..Len(tagBase) : tagBase[i] \in LetterChars

holds(s, cs) == \E i \in 1..Len(s) : s[i] \in cs

\* C17: the canonical form the conservative rule gives a tag classified korean or latin
\* holds no space, no underscore and no slash.
C17_ConcatenatedHasNoSeparator ==
    (pc = "existing" /\ (isKorean \/ isLatin)) => ~holds(tagForm, {" ", "_", "/"})

\* a Korean tag and a Latin tag that hold a slash between two characters
C17_Witness ==
    /\ pc = "existing"
    /\ isKorean \/ isLatin
    /\ \E i \in 2..(Len(tagBase) - 1) : tagBase[i] = "/"
    /\ Len(tagForm) = 2

\* the words of the tag: what stands between its separator runs
wordsOf(s) == splitTokens(s, <<>>)

\* the position before the first character of word i in the words joined
RECURSIVE offsetOf(_, _)
offsetOf(ws, i) == IF i = 1 THEN 0 ELSE offsetOf(ws, i - 1) + Len(ws[i - 1])

isAcronym(w) == \A i \in 1..Len(w) : w[i] \in UpperChars \cup DigitChars
digitLeading(w) == w[1] \in DigitChars

\* C18: a generated tag classified latin that has two or more words, none an acronym and
\* none digit-leading, becomes its words joined without a separator, every word starting
\* with an upper-case letter and the letters being the tag's own ("civil rights" gives
\* "CivilRights"); a generated tag classified korean becomes its characters without the
\* separators, in the case they had.
C18_PascalCaseGenerated ==
    pc = "ai" =>
        /\ (/\ isLatin
            /\ Len(wordsOf(tagBase)) >= 2
            /\ \A i \in 1..Len(wordsOf(tagBase)) :
                  ~isAcronym(wordsOf(tagBase)[i]) /\ ~digitLeading(wordsOf(tagBase)[i]))
              => LET ws == wordsOf(tagBase)
                 IN  /\ ~holds(tagForm, SepChars)
                     /\ toLowerCase(tagForm) = toLowerCase(JoinAll(ws))
                     /\ \A i \in 1..Len(ws) : tagForm[offsetOf(ws, i) + 1] \in UpperChars
        /\ isKorean => tagForm = JoinAll(wordsOf(tagBase))
        /\ rawTag = civilRights => tagForm = CivilRights
        /\ rawTag = segyeYeoksa => tagForm = segyeyeoksa

\* scenario 5's Latin tag
C18_Witness == pc = "ai" /\ rawTag = civilRights /\ tagForm = CivilRights

\* C19: the key a tag is recorded under is its canonical form in lower case.
C19_KeyIsLowerCasedForm ==
    pc \in {"existing", "ai"} => dedupKey = toLowerCase(tagForm)

\* a tag that holds both a Hangul syllable and a Latin letter
isMixed == isKorean /\ holds(tagBase, LetterChars)

\* C20 as the spec states it: a mixed tag gets the hyphen style of the other scripts.
C20_MixedHyphenated ==
    (pc \in {"existing", "ai"} /\ isMixed) => tagForm = hyphenStyle(tagBase)

\* C20, amended: a tag that holds both Hangul syllables and Latin letters is classified
\* korean, first match first: under both rules its separators are removed, none becomes
\* a hyphen.
C20_MixedConcatenated ==
    (pc \in {"existing", "ai"} /\ isMixed)
        => /\ ~holds(tagForm, SepChars)
           /\ tagForm = JoinAll(wordsOf(tagBase))

\* a syllable, a space, a letter: the generated tag comes out as the two characters
C20_Witness ==
    /\ pc = "ai"
    /\ rawTag = <<"U+AC00"," ","a">>
    /\ tagForm = <<"U+AC00","a">>

====
